---- MODULE Spec2Model ----
(***************************************************************************)
(* A model of the TrueGit repository engine (src/truegit.py): the loose    *)
(* object store, the refs, HEAD, the index, the working tree, and the      *)
(* operations that move them; and of the SimpleGit facade                  *)
(* (src/SimpleGit.py), whose file-level calls each commit on a branch.     *)
(*                                                                          *)
(* SHA-1 is modelled as an injective function: the oid of an object is the  *)
(* object itself, so a tree carries its blobs and subtrees and a commit     *)
(* carries its tree and parents.  An oid is readable only when the object   *)
(* is a member of the object store.                                         *)
(***************************************************************************)
EXTENDS Integers, Sequences, FiniteSets, TLC

\* ------------------------------------------------------------------ bounds
\* Number of engine operations and working-tree edits in one behaviour.
MaxSteps == 3
\* Longest content handed to _hash_object, and the number of object files,
\* in the byte-level model of the object store.
MaxLen == 2
MaxObjects == 2

VARIABLES
    wt,         \* the working directory: path -> node (".git" included)
    objects,    \* .git/objects: the set of stored objects
    HEAD,       \* .git/HEAD: the branch it is symbolic to
    cur,        \* the handle's _current_branch
    refs,       \* .git/refs/heads/<b>: branch -> oid or NoRef
    tags,       \* .git/refs/tags/<t>
    remotes,    \* .git/refs/remotes/origin/<b>
    index,      \* the handle's self.index
    indexFile,  \* .git/index
    rrefs,      \* the remote repository's refs/heads
    robjects,   \* the remote repository's objects
    steps,      \* operations performed so far
    last,       \* the last operation: name, argument, outcome
    odb,        \* .git/objects byte by byte: the files, keyed by oid
    call        \* the last _hash_object / _read_object call and its result

engineVars == <<wt, objects, HEAD, cur, refs, tags, remotes, index, indexFile,
                rrefs, robjects, steps, last>>
storeVars == <<odb, call>>
vars == <<wt, objects, HEAD, cur, refs, tags, remotes, index, indexFile,
          rrefs, robjects, steps, last, odb, call>>

\* ------------------------------------------------------------ the universe
Branches == {"main", "dev"}
TagNames == {"t"}
Messages == {"m"}

CR == "\r"
LF == "\n"
\* File contents: plain text, and text with a CRLF line ending.
Contents == { <<"u">>, <<"u", CR, LF>> }

GitName == ".git"
\* The order sorted() gives the names of a directory listing.
NameOrder == <<".git", "a", "d", "x">>
AllNames == {NameOrder[i] : i \in 1..Len(NameOrder)}

\* The paths a working directory can hold in this model.
Paths == { <<".git">>, <<"a">>, <<"d">>, <<"d", ".git">>, <<"d", "x">> }
FilePaths == { <<"a">>, <<"d", ".git">>, <<"d", "x">> }
DirPaths == { <<"d">> }
\* The files whose executable bit the model varies.
ExecPaths == { <<"a">> }

Absent == [kind |-> "absent", data |-> <<>>, exec |-> FALSE]
DirNode == [kind |-> "dir", data |-> <<>>, exec |-> FALSE]
FileNode(c, e) == [kind |-> "file", data |-> c, exec |-> e]

IsPrefix(s, t) == Len(s) <= Len(t) /\ SubSeq(t, 1, Len(s)) = s
Parent(p) == SubSeq(p, 1, Len(p) - 1)

\* A well-formed working directory: .git is a directory, every node's
\* parent is a directory, files sit on file paths and directories on
\* directory paths.
WellFormed(w) ==
    /\ w[<<".git">>] = DirNode
    /\ \A p \in Paths \ {<<".git">>} :
        /\ w[p].kind = "file" => p \in FilePaths
        /\ w[p].exec => p \in ExecPaths
        /\ w[p].kind = "dir" => p \in DirPaths
        /\ (w[p].kind # "absent" /\ Len(p) > 1) => w[Parent(p)].kind = "dir"

Nodes == {Absent, DirNode} \cup {FileNode(c, e) : c \in Contents, e \in BOOLEAN}
WorkTrees == {w \in [Paths -> Nodes] : WellFormed(w)}

\* ------------------------------------------------------------ the objects
Blob(c) == [type |-> "blob", data |-> c]
Tree(es) == [type |-> "tree", entries |-> es]
CommitObj(t, ps, m) == [type |-> "commit", tree |-> t, parents |-> ps, message |-> m]
EmptyTree == Tree(<<>>)

NoRef == [type |-> "noref"]
\* An oid-shaped string that names no stored object.
MissingOid == [type |-> "missing"]

Range(s) == {s[i] : i \in 1..Len(s)}

\* iterdir(): the names present in directory dir of w.
ListDir(w, dir) ==
    {n \in AllNames : dir \o <<n>> \in Paths /\ w[dir \o <<n>>].kind # "absent"}

\* sorted(): a set of names as the sequence sorted() returns.
Sorted(S) == SelectSeq(NameOrder, LAMBDA n : n \in S)

\* Mutant of ScanNames: the scan does not skip the entries named .git.
ScanNamesAll(w, dir) == Sorted(ListDir(w, dir))

\* The names _create_tree_from_index visits in dir: the sorted listing
\* without the entries named .git.
ScanNames(w, dir) == SelectSeq(Sorted(ListDir(w, dir)), LAMBDA n : n # GitName)

\* _create_tree_from_index: the tree object built from directory dir of w.
RECURSIVE CreateTreeFromIndex(_, _)
CreateTreeFromIndex(w, dir) ==
    LET names == ScanNames(w, dir)
        Entry(n) ==
            LET p == dir \o <<n>> IN
            IF w[p].kind = "file"
            THEN <<IF w[p].exec THEN "100755" ELSE "100644", n, Blob(w[p].data)>>
            ELSE <<"40000", n, CreateTreeFromIndex(w, p)>>
    IN Tree([i \in 1..Len(names) |-> Entry(names[i])])

\* Every object _create_tree_from_index hashes while building tree t:
\* t itself, its blobs and its subtrees.
RECURSIVE TreeObjects(_)
TreeObjects(t) ==
    {t} \cup UNION { IF e[1] = "40000" THEN TreeObjects(e[3]) ELSE {e[3]}
                     : e \in Range(t.entries) }

\* _get_head_commit: the content of the current branch's ref file.
GetHeadCommit == refs[cur]

\* _parse_commit succeeds on sha: the object is stored and is a commit.
IsCommit(sha) == sha \in objects /\ sha.type = "commit"

\* ------------------------------------------------------------- the index
IndexPut(ix, p, sha, mode) ==
    {e \in ix : e.path # p} \cup {[path |-> p, sha |-> sha, mode |-> mode]}

\* _rebuild_index_from_tree: the index after the call on tree t with
\* prefix; every call, the recursive ones too, starts by clearing it.
RECURSIVE RebuildIndexFromTree(_, _)
RebuildIndexFromTree(t, prefix) ==
    LET RECURSIVE Loop(_, _)
        Loop(i, ix) ==
            IF i > Len(t.entries) THEN ix
            ELSE LET e == t.entries[i]
                     path == prefix \o <<e[2]>>
                 IN IF e[1] = "40000"
                    THEN Loop(i + 1, RebuildIndexFromTree(e[3], path))
                    ELSE Loop(i + 1, IndexPut(ix, path, e[3], e[1]))
    IN Loop(1, {})

\* _write_index: .git/index after writing ix; an empty index deletes it.
WriteIndex(ix) ==
    IF ix = {} THEN [exists |-> FALSE, entries |-> {}]
    ELSE [exists |-> TRUE, entries |-> ix]

\* ------------------------------------------------ the object store
\* _hash_object and _read_object on bytes.  SHA-1 is an injective
\* function of the hashed bytes; zlib is a lossless codec.
NUL == "\\0"
SP == " "
Bytes == {"x", NUL}
\* The object types the engine stores.
ObjTypes == {"blob", "tree", "commit"}

RECURSIVE SeqsUpTo(_, _)
SeqsUpTo(S, n) ==
    IF n = 0 THEN {<<>>}
    ELSE LET shorter == SeqsUpTo(S, n - 1)
         IN shorter \cup {Append(q, b) : q \in shorter, b \in S}

Datas == SeqsUpTo(Bytes, MaxLen)

\* str.encode() of an object type.
TypeBytes(T) ==
    CASE T = "blob" -> <<"b", "l", "o", "b">>
      [] T = "tree" -> <<"t", "r", "e", "e">>
      [] T = "commit" -> <<"c", "o", "m", "m", "i", "t">>

DigitChars == <<"0", "1", "2", "3", "4", "5", "6", "7", "8", "9">>

\* The decimal digits of n, as f"{n}" formats them.
RECURSIVE Decimal(_)
Decimal(n) ==
    IF n < 10 THEN <<DigitChars[n + 1]>>
    ELSE Decimal(n \div 10) \o <<DigitChars[(n % 10) + 1]>>

\* Mutant of Frame: the header is not terminated by a NUL byte.
FrameNoNul(T, data) == TypeBytes(T) \o <<SP>> \o Decimal(Len(data)) \o data

\* header + data: "<type> <length>\0<content>".
Frame(T, data) == TypeBytes(T) \o <<SP>> \o Decimal(Len(data)) \o <<NUL>> \o data

Sha1(bytes) == [sha1 |-> bytes]
Compress(bytes) == <<"zlib">> \o bytes
Decompress(bytes) == Tail(bytes)

Stored(files, sha) == \E f \in files : f.sha = sha

\* Mutant of ShouldWrite: the object file is written on every call.
ShouldWriteAlways(files, sha) == TRUE

\* _hash_object writes the file only when it does not exist yet.
ShouldWrite(files, sha) == ~Stored(files, sha)

\* data.index(b'\0'): the position of the first NUL, 0 when there is none.
FirstNul(bytes) ==
    IF \E i \in 1..Len(bytes) : bytes[i] = NUL
    THEN CHOOSE i \in 1..Len(bytes) :
            bytes[i] = NUL /\ \A j \in 1..(i - 1) : bytes[j] # NUL
    ELSE 0

\* header.split()[0]: the first whitespace-separated word; <<>> when the
\* header has none.
FirstWord(header) ==
    LET starts == {i \in 1..Len(header) : header[i] # SP}
    IN IF starts = {} THEN <<>>
       ELSE LET a == CHOOSE i \in starts : \A j \in starts : i <= j
                ends == {i \in a..Len(header) : header[i] = SP}
                b == IF ends = {} THEN Len(header) + 1
                     ELSE CHOOSE i \in ends : \A j \in ends : i <= j
            IN SubSeq(header, a, b - 1)

ReadError == [ok |-> FALSE, type |-> <<>>, content |-> <<>>]

\* _read_object(sha): the type and the content, or an error when the
\* file is missing or does not parse.
ReadObject(files, sha) ==
    IF ~Stored(files, sha) THEN ReadError
    ELSE LET data == Decompress((CHOOSE f \in files : f.sha = sha).bytes)
             k == FirstNul(data)
         IN IF k = 0 \/ FirstWord(SubSeq(data, 1, k - 1)) = <<>> THEN ReadError
            ELSE [ok |-> TRUE,
                  type |-> FirstWord(SubSeq(data, 1, k - 1)),
                  content |-> SubSeq(data, k + 1, Len(data))]

NoCall == [op |-> "none", type |-> "blob", data |-> <<>>, sha |-> Sha1(<<>>),
           wrote |-> FALSE, result |-> ReadError]

\* _hash_object(data, T)
HashObject(data, T) ==
    LET store == Frame(T, data)
        sha == Sha1(store)
    IN /\ Cardinality(odb) < MaxObjects \/ Stored(odb, sha)
       /\ odb' = IF ShouldWrite(odb, sha)
                 THEN odb \cup {[sha |-> sha, bytes |-> Compress(store)]}
                 ELSE odb
       /\ call' = [op |-> "hash", type |-> T, data |-> data, sha |-> sha,
                   wrote |-> ShouldWrite(odb, sha), result |-> ReadError]
       /\ UNCHANGED engineVars

\* _read_object(sha) for a stored oid
ReadStored(sha) ==
    /\ Stored(odb, sha)
    /\ call' = [op |-> "read", type |-> "blob", data |-> <<>>, sha |-> sha,
                wrote |-> FALSE, result |-> ReadObject(odb, sha)]
    /\ UNCHANGED odb
    /\ UNCHANGED engineVars

\* _read_object(sha) for an oid that is not in the store
ReadMissing(data, T) ==
    /\ ~Stored(odb, Sha1(Frame(T, data)))
    /\ call' = [op |-> "read", type |-> "blob", data |-> <<>>,
                sha |-> Sha1(Frame(T, data)),
                wrote |-> FALSE, result |-> ReadObject(odb, Sha1(Frame(T, data)))]
    /\ UNCHANGED odb
    /\ UNCHANGED engineVars

\* A repository right after construction, its working directory empty.
InitStore ==
    /\ wt = [p \in Paths |-> IF p = <<GitName>> THEN DirNode ELSE Absent]
    /\ objects = {}
    /\ refs = [b \in Branches |-> NoRef]
    /\ HEAD = "main"
    /\ cur = "main"
    /\ tags = [t \in TagNames |-> NoRef]
    /\ remotes = [b \in Branches |-> NoRef]
    /\ index = {}
    /\ indexFile = WriteIndex({})
    /\ rrefs = [b \in Branches |-> NoRef]
    /\ robjects = {}
    /\ steps = 0
    /\ last = [op |-> "init", arg |-> "", ok |-> TRUE, changed |-> FALSE,
               again |-> FALSE]
    /\ odb = {}
    /\ call = NoCall

NextStore ==
    \/ \E data \in Datas, T \in ObjTypes : HashObject(data, T)
    \/ \E f \in odb : ReadStored(f.sha)
    \/ \E T \in ObjTypes : ReadMissing(<<>>, T)

SpecStore == InitStore /\ [][NextStore]_vars


\* ---------------------------------------------------------------- Init
Op(name, arg, ok, changed) ==
    [op |-> name, arg |-> arg, ok |-> ok, changed |-> changed,
     again |-> last.op = name /\ last.arg = arg /\ last.ok /\ ok]

InitialCommit == CommitObj(EmptyTree, <<>>, "Initial commit")
ForeignCommit == CommitObj(EmptyTree, <<>>, "remote")

\* TrueGit(path, initial_commit=ic) on a directory that has no .git yet
\* and may hold any files.  The remote is a repository with one commit of
\* its own on main.
Init ==
    /\ wt \in WorkTrees
    /\ \E ic \in BOOLEAN :
        /\ objects = IF ic THEN {EmptyTree, InitialCommit} ELSE {}
        /\ refs = [b \in Branches |->
                     IF ic /\ b = "main" THEN InitialCommit ELSE NoRef]
    /\ HEAD = "main"
    /\ cur = "main"
    /\ tags = [t \in TagNames |-> NoRef]
    /\ remotes = [b \in Branches |-> NoRef]
    /\ index = {}
    /\ indexFile = WriteIndex({})
    /\ rrefs = [b \in Branches |-> IF b = "main" THEN ForeignCommit ELSE NoRef]
    /\ robjects = {EmptyTree, ForeignCommit}
    /\ steps = 0
    /\ last = [op |-> "init", arg |-> "", ok |-> TRUE, changed |-> FALSE,
               again |-> FALSE]
    /\ odb = {}
    /\ call = NoCall

Tick == steps < MaxSteps /\ steps' = steps + 1 /\ UNCHANGED storeVars

\* ------------------------------------------------ working-tree edits
\* The user's own changes to the working directory, outside .git.
WriteFile(p, c, e) ==
    /\ Tick
    /\ Len(p) > 1 => wt[Parent(p)].kind = "dir"
    /\ wt' = [wt EXCEPT ![p] = FileNode(c, e)]
    /\ wt' # wt
    /\ last' = Op("edit", "", TRUE, TRUE)
    /\ UNCHANGED <<objects, HEAD, cur, refs, tags, remotes, index, indexFile,
                   rrefs, robjects>>

Mkdir(p) ==
    /\ Tick
    /\ wt[p].kind = "absent"
    /\ wt' = [wt EXCEPT ![p] = DirNode]
    /\ last' = Op("edit", "", TRUE, TRUE)
    /\ UNCHANGED <<objects, HEAD, cur, refs, tags, remotes, index, indexFile,
                   rrefs, robjects>>

Remove(p) ==
    /\ Tick
    /\ wt[p].kind # "absent"
    /\ wt' = [q \in Paths |-> IF IsPrefix(p, q) THEN Absent ELSE wt[q]]
    /\ last' = Op("edit", "", TRUE, TRUE)
    /\ UNCHANGED <<objects, HEAD, cur, refs, tags, remotes, index, indexFile,
                   rrefs, robjects>>

\* ------------------------------------------------------------- commit
\* Mutant of CommitParents: the parent line is never written.
CommitParentsNone(parent) == <<>>

\* The parent lines commit writes: one for the current tip, none when
\* the branch is unborn.
CommitParents(parent) == IF parent # NoRef THEN <<parent>> ELSE <<>>

\* commit(message): snapshot the working directory, write the commit,
\* advance the current branch, rebuild the index.
Commit(m) ==
    /\ Tick
    /\ LET tree == CreateTreeFromIndex(wt, <<>>)
           parent == GetHeadCommit
           c == CommitObj(tree, CommitParents(parent), m)
       IN /\ objects' = objects \cup TreeObjects(tree) \cup {c}
          /\ refs' = [refs EXCEPT ![cur] = c]
          /\ index' = RebuildIndexFromTree(tree, <<>>)
          /\ indexFile' = WriteIndex(index')
    /\ last' = Op("commit", cur, TRUE, FALSE)
    /\ UNCHANGED <<wt, HEAD, cur, tags, remotes, rrefs, robjects>>

\* _extract_tree: the working directory after materialising tree t
\* under dir.  write_bytes keeps the mode of a file that is already
\* there; chmod adds the executable bit for mode 100755.
RECURSIVE ExtractTree(_, _, _)
ExtractTree(t, dir, w) ==
    LET RECURSIVE Loop(_, _)
        Loop(i, v) ==
            IF i > Len(t.entries) THEN v
            ELSE LET e == t.entries[i]
                     p == dir \o <<e[2]>>
                 IN IF e[1] = "40000"
                    THEN Loop(i + 1, ExtractTree(e[3], p, [v EXCEPT ![p] = DirNode]))
                    ELSE Loop(i + 1,
                              [v EXCEPT ![p] = FileNode(e[3].data,
                                   e[1] = "100755" \/ (v[p].kind = "file" /\ v[p].exec))])
    IN Loop(1, w)

\* Mutant of RemoveItem: a directory that has entries is emptied but not
\* removed.
RemoveItemShallow(w, name) ==
    IF \E q \in Paths : Len(q) > 1 /\ q[1] = name /\ w[q].kind # "absent"
    THEN [q \in Paths |-> IF Len(q) > 1 /\ q[1] = name THEN Absent ELSE w[q]]
    ELSE [q \in Paths |-> IF q[1] = name THEN Absent ELSE w[q]]

\* item.unlink() / shutil.rmtree(item): the top-level item and everything
\* below it are gone.
RemoveItem(w, name) ==
    [q \in Paths |-> IF q[1] = name THEN Absent ELSE w[q]]

\* Mutant of ItemsToDelete: only the files are deleted, not the
\* directories.
ItemsToDeleteFiles(w) ==
    SelectSeq(Sorted(ListDir(w, <<>>)),
              LAMBDA n : n # GitName /\ w[<<n>>].kind = "file")

\* The top-level items _checkout_tree deletes: all but .git.
ItemsToDelete(w) == SelectSeq(Sorted(ListDir(w, <<>>)), LAMBDA n : n # GitName)

\* _checkout_tree on a readable commit c: delete the top-level items,
\* then extract the commit's tree.
CheckoutTree(w, c) ==
    LET items == ItemsToDelete(w)
        RECURSIVE Del(_, _)
        Del(i, v) == IF i > Len(items) THEN v ELSE Del(i + 1, RemoveItem(v, items[i]))
    IN ExtractTree(c.tree, <<>>, Del(1, w))

\* ------------------------------------------------------------ branches
\* create_branch(name): copy the current tip into refs/heads/name.
CreateBranch(name) ==
    /\ Tick
    /\ IF GetHeadCommit = NoRef
       THEN /\ last' = Op("create_branch", name, FALSE, FALSE)
            /\ UNCHANGED refs
       ELSE /\ refs' = [refs EXCEPT ![name] = GetHeadCommit]
            /\ last' = Op("create_branch", name, TRUE, FALSE)
    /\ UNCHANGED <<wt, objects, HEAD, cur, tags, remotes, index, indexFile,
                   rrefs, robjects>>

\* delete_branch(name): unlink the ref file when it exists.
DeleteBranch(name) ==
    /\ Tick
    /\ refs' = [refs EXCEPT ![name] = NoRef]
    /\ last' = Op("delete_branch", name, TRUE, FALSE)
    /\ UNCHANGED <<wt, objects, HEAD, cur, tags, remotes, index, indexFile,
                   rrefs, robjects>>

\* tag(name): point refs/tags/name at the current tip.
Tag(name) ==
    /\ Tick
    /\ IF GetHeadCommit = NoRef
       THEN /\ last' = Op("tag", name, FALSE, FALSE)
            /\ UNCHANGED tags
       ELSE /\ tags' = [tags EXCEPT ![name] = GetHeadCommit]
            /\ last' = Op("tag", name, TRUE, FALSE)
    /\ UNCHANGED <<wt, objects, HEAD, cur, refs, remotes, index, indexFile,
                   rrefs, robjects>>

\* Mutant of BranchFileExists: switch does not look for the ref file.
BranchFileAssumed(b) == TRUE

\* branch_file.exists(): refs/heads/b is a file.
BranchFileExists(b) == refs[b] # NoRef

\* switch(b): refuse a missing branch; otherwise set the handle's branch,
\* rewrite HEAD, and check out the tip.  A tip that is no readable commit
\* raises after HEAD has been rewritten.
Switch(b) ==
    /\ Tick
    /\ IF ~BranchFileExists(b)
       THEN /\ last' = Op("switch", b, FALSE, FALSE)
            /\ UNCHANGED <<wt, HEAD, cur>>
       ELSE /\ cur' = b
            /\ HEAD' = b
            /\ IF IsCommit(refs[b])
               THEN /\ wt' = CheckoutTree(wt, refs[b])
                    /\ last' = Op("switch", b, TRUE, wt' # wt)
               ELSE /\ wt' = wt
                    /\ last' = Op("switch", b, FALSE, FALSE)
    /\ UNCHANGED <<objects, refs, tags, remotes, index, indexFile, rrefs, robjects>>

\* The oids reset is called with: the stored commits, and one oid that
\* names no object.
ResetTargets == {o \in objects : o.type = "commit"} \cup {MissingOid}

\* reset(sha, hard): write sha to the current branch's ref, then, when
\* hard, check it out.
Reset(sha, hard) ==
    /\ Tick
    /\ refs' = [refs EXCEPT ![cur] = sha]
    /\ IF hard /\ IsCommit(sha)
       THEN /\ wt' = CheckoutTree(wt, sha)
            /\ last' = Op(IF hard THEN "reset_hard" ELSE "reset", cur, TRUE, wt' # wt)
       ELSE /\ wt' = wt
            /\ last' = Op(IF hard THEN "reset_hard" ELSE "reset", cur, ~hard, FALSE)
    /\ UNCHANGED <<objects, HEAD, cur, tags, remotes, index, indexFile, rrefs, robjects>>

MergeMessage(b) == IF b = "main" THEN "Merge branch 'main'" ELSE "Merge branch 'dev'"

\* merge(b) with the merged branch's tip written as the first parent.
MergeOtherFirst(b) ==
    /\ Tick
    /\ IF refs[b] = NoRef \/ GetHeadCommit = NoRef
       THEN /\ last' = Op("merge", b, FALSE, FALSE)
            /\ UNCHANGED <<objects, refs>>
       ELSE LET tree == CreateTreeFromIndex(wt, <<>>)
                c == CommitObj(tree, <<refs[b], GetHeadCommit>>, MergeMessage(b))
            IN /\ objects' = objects \cup TreeObjects(tree) \cup {c}
               /\ refs' = [refs EXCEPT ![cur] = c]
               /\ last' = Op("merge", b, TRUE, FALSE)
    /\ UNCHANGED <<wt, HEAD, cur, tags, remotes, index, indexFile, rrefs, robjects>>

\* merge(b): a two-parent commit of the working directory on the current
\* branch.
Merge(b) ==
    /\ Tick
    /\ IF refs[b] = NoRef \/ GetHeadCommit = NoRef
       THEN /\ last' = Op("merge", b, FALSE, FALSE)
            /\ UNCHANGED <<objects, refs>>
       ELSE LET tree == CreateTreeFromIndex(wt, <<>>)
                c == CommitObj(tree, <<GetHeadCommit, refs[b]>>, MergeMessage(b))
            IN /\ objects' = objects \cup TreeObjects(tree) \cup {c}
               /\ refs' = [refs EXCEPT ![cur] = c]
               /\ last' = Op("merge", b, TRUE, FALSE)
    /\ UNCHANGED <<wt, HEAD, cur, tags, remotes, index, indexFile, rrefs, robjects>>

\* log(): the first-parent walk from sha; it stops at the root and at the
\* first oid that is no readable commit.
RECURSIVE Log(_)
Log(sha) ==
    IF sha = NoRef \/ ~IsCommit(sha) THEN <<>>
    ELSE <<sha>> \o (IF sha.parents = <<>> THEN <<>> ELSE Log(sha.parents[1]))

\* log(max_count): the loop goes on while count < max_count.
LogContinue(count, max) == count < max

\* log(max_count) from sha with count entries already listed: it stops
\* at an object that does not parse as a commit, at a commit without
\* parents, and at max_count entries.
RECURSIVE LogUpTo(_, _, _)
LogUpTo(sha, count, max) ==
    IF sha = NoRef \/ ~LogContinue(count, max) \/ ~IsCommit(sha) THEN <<>>
    ELSE <<sha>> \o LogUpTo(IF sha.parents = <<>> THEN NoRef ELSE sha.parents[1],
                            count + 1, max)

\* rebase(target): reset --hard to the target's tip, then for every commit
\* of the old history but the oldest, oldest first, check it out and
\* commit it again.
Rebase(target) ==
    /\ Tick
    /\ IF refs[target] = NoRef
       THEN /\ last' = Op("rebase", target, FALSE, FALSE)
            /\ UNCHANGED <<wt, objects, refs, index, indexFile>>
       ELSE LET old == Log(GetHeadCommit)
                todo == [i \in 1..(Len(old) - 1) |-> old[Len(old) - i]]
                start == [w |-> CheckoutTree(wt, refs[target]), objs |-> objects,
                          tip |-> refs[target], ix |-> index, ixf |-> indexFile]
                RECURSIVE Replay(_, _)
                Replay(i, s) ==
                    IF i > Len(todo) THEN s
                    ELSE LET w2 == CheckoutTree(s.w, todo[i])
                             tree == CreateTreeFromIndex(w2, <<>>)
                             c == CommitObj(tree, CommitParents(s.tip), todo[i].message)
                             ix2 == RebuildIndexFromTree(tree, <<>>)
                         IN Replay(i + 1,
                                   [w |-> w2,
                                    objs |-> s.objs \cup TreeObjects(tree) \cup {c},
                                    tip |-> c, ix |-> ix2, ixf |-> WriteIndex(ix2)])
            IN IF ~IsCommit(refs[target])
               THEN /\ refs' = [refs EXCEPT ![cur] = refs[target]]
                    /\ last' = Op("rebase", target, FALSE, FALSE)
                    /\ UNCHANGED <<wt, objects, index, indexFile>>
               ELSE LET end == Replay(1, start)
                    IN /\ wt' = end.w
                       /\ objects' = end.objs
                       /\ refs' = [refs EXCEPT ![cur] = end.tip]
                       /\ index' = end.ix
                       /\ indexFile' = end.ixf
                       /\ last' = Op("rebase", target, TRUE, wt' # wt)
    /\ UNCHANGED <<HEAD, cur, tags, remotes, rrefs, robjects>>

\* ------------------------------------------------------------- remotes
\* fetch: copy every ref file of the remote's refs/heads into
\* refs/remotes/origin; no object is copied.
Fetched == [b \in Branches |-> IF rrefs[b] # NoRef THEN rrefs[b] ELSE remotes[b]]

Fetch ==
    /\ Tick
    /\ remotes' = Fetched
    /\ last' = Op("fetch", "", TRUE, FALSE)
    /\ UNCHANGED <<wt, objects, HEAD, cur, refs, tags, index, indexFile,
                   rrefs, robjects>>

\* pull(remote, bn): fetch, then reset --hard the current branch to
\* refs/remotes/origin/bn when that ref exists.
Pull(bn) ==
    /\ Tick
    /\ remotes' = Fetched
    /\ IF Fetched[bn] = NoRef
       THEN /\ last' = Op("pull", bn, TRUE, FALSE)
            /\ UNCHANGED <<wt, refs>>
       ELSE /\ refs' = [refs EXCEPT ![cur] = Fetched[bn]]
            /\ IF IsCommit(Fetched[bn])
               THEN /\ wt' = CheckoutTree(wt, Fetched[bn])
                    /\ last' = Op("pull", bn, TRUE, wt' # wt)
               ELSE /\ wt' = wt
                    /\ last' = Op("pull", bn, FALSE, FALSE)
    /\ UNCHANGED <<objects, HEAD, cur, tags, index, indexFile, rrefs, robjects>>

\* push(remote, bn): copy the branch's ref file to the remote, then copy
\* every local object file.
Push(bn) ==
    /\ Tick
    /\ IF refs[bn] = NoRef
       THEN /\ last' = Op("push", bn, FALSE, FALSE)
            /\ UNCHANGED <<rrefs, robjects>>
       ELSE /\ rrefs' = [rrefs EXCEPT ![bn] = refs[bn]]
            /\ robjects' = robjects \cup objects
            /\ last' = Op("push", bn, TRUE, FALSE)
    /\ UNCHANGED <<wt, objects, HEAD, cur, refs, tags, remotes, index, indexFile>>


\* ------------------------------------------------------------- queries
\* _walk_tree: the files of tree t, each with its path, mode and blob.
RECURSIVE WalkTree(_, _)
WalkTree(t, prefix) ==
    UNION { IF e[1] = "40000"
            THEN WalkTree(e[3], prefix \o <<e[2]>>)
            ELSE {[path |-> prefix \o <<e[2]>>, sha |-> e[3], mode |-> e[1]]}
            : e \in Range(t.entries) }

\* Every path, file or directory, that tree t names.
RECURSIVE TreePaths(_, _)
TreePaths(t, prefix) ==
    UNION { {prefix \o <<e[2]>>} \cup
            (IF e[1] = "40000" THEN TreePaths(e[3], prefix \o <<e[2]>>) ELSE {})
            : e \in Range(t.entries) }

\* bytes.decode(errors='ignore'): bytes that are not text are dropped.
Decode(bytes) == SelectSeq(bytes, LAMBDA ch : ch # "\\xff")

\* Text-mode reading translates "\r\n" and a lone "\r" to "\n".
RECURSIVE UniversalNewlines(_)
UniversalNewlines(text) ==
    IF text = <<>> THEN <<>>
    ELSE IF Head(text) = CR
         THEN <<LF>> \o UniversalNewlines(
                  IF Len(text) > 1 /\ text[2] = LF THEN SubSeq(text, 3, Len(text))
                  ELSE Tail(text))
         ELSE <<Head(text)>> \o UniversalNewlines(Tail(text))

\* Path.read_text(errors='ignore') of a file holding bytes.
ReadText(bytes) == UniversalNewlines(Decode(bytes))

\* rglob('*') filtered as status() does: the files none of whose path
\* components is .git.
WorkFiles(w) ==
    {p \in Paths : w[p].kind = "file" /\ GitName \notin Range(p)}

\* status() when the current tip is a readable commit: the modified,
\* untracked and deleted paths.
Status ==
    LET head == {[path |-> f.path, text |-> Decode(f.sha.data)]
                 : f \in WalkTree(GetHeadCommit.tree, <<>>)}
        headPaths == {f.path : f \in head}
        work == WorkFiles(wt)
    IN [modified |-> {p \in work : \E f \in head :
                         f.path = p /\ f.text # ReadText(wt[p].data)},
        untracked |-> work \ headPaths,
        deleted |-> headPaths \ work]

\* The index that holds exactly the files of tree t.
TreeIndex(t) == WalkTree(t, <<>>)

Next ==
    \/ \E p \in FilePaths, c \in Contents, e \in BOOLEAN :
          (e => p \in ExecPaths) /\ WriteFile(p, c, e)
    \/ \E p \in DirPaths : Mkdir(p)
    \/ \E p \in Paths \ {<<".git">>} : Remove(p)
    \/ \E m \in Messages : Commit(m)
    \/ \E b \in Branches : CreateBranch(b)
    \/ \E b \in Branches : DeleteBranch(b)
    \/ \E t \in TagNames : Tag(t)
    \/ \E b \in Branches : Switch(b)
    \/ \E sha \in ResetTargets, hard \in BOOLEAN : Reset(sha, hard)
    \/ \E b \in Branches : Merge(b)
    \/ \E b \in Branches : Rebase(b)
    \/ Fetch
    \/ \E b \in Branches : Pull(b)
    \/ \E b \in Branches : Push(b)

Spec == Init /\ [][Next]_vars

\* ------------------------------------------------------------ the facade
\* SimpleGit (src/SimpleGit.py): file-level operations that each commit on
\* a chosen branch.  It keeps the repository through the dulwich library,
\* which is not part of the repository; each dulwich call is modelled by
\* the effect the library documents for it: refs is a mapping from ref
\* names to oids, head() is the oid HEAD resolves to, add_object stores an
\* object, build_index_from_tree writes the files of a tree under the
\* repository path and replaces the index by the tree's entries, and
\* commit_tree stores the trees of the index's entries.
\* The facade works on the same disk state as the engine: the working
\* directory, .git/objects, .git/refs/heads, .git/HEAD and .git/index.

\* The result dictionary of a facade call, with the content the call was
\* given (input, a set: empty when the call takes none).  commit is
\* NoRef for None; content is the empty set for None; entries is the list
\* ls or logs returns.
Envelope(name, b, f, input, success, done, commit, message, content, entries) ==
    [op |-> name, branch |-> b, file |-> f, input |-> input,
     success |-> success, created |-> done, commit |-> commit,
     message |-> message, content |-> content, entries |-> entries]

\* _initial_commit: an empty tree committed on main without a parent.
SgInitialCommit == CommitObj(EmptyTree, <<>>, "Initial commit")

\* The working directories the facade is opened on: regular files, no
\* nested .git.
FacadeWorkTrees ==
    {w \in WorkTrees : /\ w[<<"d", GitName>>].kind = "absent"
                       /\ \A p \in Paths : ~w[p].exec}

\* The paths facade calls name, and the directories ls is asked for.
FacadePaths == { <<"a">>, <<"d", "x">> }
LsDirs == { <<>>, <<"a">>, <<"d">>, <<"x">>, <<"d", "x">> }

\* _get_head_commit(b): the refs after the call; a branch that has no
\* ref is created at the commit HEAD resolves to.
SgGetHeadCommit(rf, head, b) ==
    IF rf[b] = NoRef THEN [rf EXCEPT ![b] = rf[head]] ELSE rf

\* _get_blob_content_from_commit: the bytes of the blob at path p in
\* commit c, as a set; empty for None.
SgGetBlobContentFromCommit(c, p) ==
    {f.sha.data : f \in {g \in WalkTree(c.tree, <<>>) : g.path = p}}

\* str.encode("utf-8") and write_text(encoding="utf-8") of a text whose
\* characters are ASCII: one byte per character, no newline translation
\* on POSIX.
EncodeUtf8(text) == [i \in 1..Len(text) |-> text[i]]

\* full_path.parent.mkdir(parents=True, exist_ok=True)
RECURSIVE MakeDirs(_, _)
MakeDirs(w, dir) ==
    IF dir = <<>> THEN w
    ELSE [MakeDirs(w, Parent(dir)) EXCEPT ![dir] = DirNode]

\* mkdir of the parents, then write_text: the file holds the bytes and
\* keeps the mode it had.
WriteText(w, p, bytes) ==
    [MakeDirs(w, Parent(p)) EXCEPT
        ![p] = FileNode(bytes, w[p].kind = "file" /\ w[p].exec)]

\* _build_working_tree_index: build_index_from_tree writes every file of
\* tree t under the repository path, making the directories it needs, and
\* replaces the index by the entries of t.  Files the tree does not name
\* stay where they are.
SgBuildWorkingTreeIndex(t, w) ==
    LET files == WalkTree(t, <<>>)
        Written(p) == {f \in files : f.path = p}
    IN [wt |-> [p \in Paths |->
                 IF Written(p) # {}
                 THEN LET f == CHOOSE g \in files : g.path = p
                      IN FileNode(f.sha.data, f.mode = "100755")
                 ELSE IF \E f \in files : IsPrefix(p, f.path)
                      THEN DirNode
                      ELSE w[p]],
        index |-> files]

\* commit_tree: the tree object of the index entries below dir, one entry
\* per name, a subtree for every directory.
RECURSIVE SgCommitTree(_, _)
SgCommitTree(ix, dir) ==
    LET Below(n) == {e \in ix : IsPrefix(dir \o <<n>>, e.path)}
        names == SelectSeq(NameOrder, LAMBDA n : Below(n) # {})
        Entry(n) ==
            LET p == dir \o <<n>> IN
            IF \E e \in ix : e.path = p
            THEN LET e == CHOOSE g \in ix : g.path = p IN <<e.mode, n, e.sha>>
            ELSE <<"40000", n, SgCommitTree(Below(n), p)>>
    IN Tree([i \in 1..Len(names) |-> Entry(names[i])])

\* _create_commit: the commit of the index on top of the branch's tip.
SgCreateCommit(ix, tip, m) == CommitObj(SgCommitTree(ix, <<>>), <<tip>>, m)

\* The index file dulwich writes.
SgIndexFile(ix) == [exists |-> TRUE, entries |-> ix]

facadeFrame == <<HEAD, cur, tags, remotes, index, rrefs, robjects>>

\* write(p, c, b, m)
SgWrite(p, c, b, m) ==
    /\ Tick
    /\ LET rf == SgGetHeadCommit(refs, HEAD, b)
           head == rf[b]
           old == SgGetBlobContentFromCommit(head, p)
       IN IF old = {EncodeUtf8(c)}
          THEN /\ refs' = rf
               /\ last' = Envelope("write", b, p, {EncodeUtf8(c)}, TRUE, FALSE, NoRef, "No changes", {}, <<>>)
               /\ UNCHANGED <<wt, objects, indexFile>>
          ELSE LET built == SgBuildWorkingTreeIndex(head.tree,
                                WriteText(wt, p, EncodeUtf8(c)))
                   blob == Blob(built.wt[p].data)
                   ix == IndexPut(built.index, p, blob, "100644")
                   commit == SgCreateCommit(ix, head, m)
               IN /\ wt' = built.wt
                  /\ objects' = objects \cup {blob} \cup TreeObjects(commit.tree)
                                        \cup {commit}
                  /\ indexFile' = SgIndexFile(ix)
                  /\ refs' = [rf EXCEPT ![b] = commit]
                  /\ last' = Envelope("write", b, p, {EncodeUtf8(c)}, TRUE, TRUE, commit, m, {}, <<>>)
    /\ UNCHANGED facadeFrame

\* read(p, b)
SgRead(p, b) ==
    /\ Tick
    /\ LET rf == SgGetHeadCommit(refs, HEAD, b)
           data == SgGetBlobContentFromCommit(rf[b], p)
       IN /\ refs' = rf
          /\ last' = IF data = {}
                     THEN Envelope("read", b, p, {}, FALSE, FALSE, NoRef, "", {}, <<>>)
                     ELSE Envelope("read", b, p, {}, TRUE, FALSE, rf[b], "", data, <<>>)
    /\ UNCHANGED <<wt, objects, indexFile>>
    /\ UNCHANGED facadeFrame

\* The descent of ls into tree t along dir: the tree found there, or a
\* failure when a name is missing or names no tree.
RECURSIVE SgDescend(_, _)
SgDescend(t, dir) ==
    IF dir = <<>> THEN [ok |-> TRUE, tree |-> t]
    ELSE LET hits == {e \in Range(t.entries) : e[2] = Head(dir)}
         IN IF hits = {} THEN [ok |-> FALSE, tree |-> EmptyTree]
            ELSE LET e == CHOOSE h \in hits : TRUE
                 IN IF e[3].type # "tree" THEN [ok |-> FALSE, tree |-> EmptyTree]
                    ELSE SgDescend(e[3], Tail(dir))

\* Mutant of SgLsItems: the listing walks into the subdirectories.
SgLsItemsDeep(t) ==
    LET fs == WalkTree(t, <<>>)
        names == SelectSeq(NameOrder, LAMBDA n : \E f \in fs : n \in Range(f.path))
    IN [i \in 1..Len(names) |-> <<"100644", names[i], EmptyTree>>]

\* tree.items(): the entries of the tree ls lists.
SgLsItems(t) == t.entries

\* The other branches an entry of ls differs in: those whose tip tree has
\* no entry of that name under dir, or one with another oid.
SgChangedIn(rf, b, dir, e) ==
    {o \in Branches \ {b} :
        /\ rf[o] # NoRef
        /\ LET d == SgDescend(rf[o].tree, dir)
           IN ~d.ok \/ ~\E g \in Range(d.tree.entries) : g[2] = e[2] /\ g[3] = e[3]}

\* ls(dir, b)
SgLs(dir, b) ==
    /\ Tick
    /\ LET rf == SgGetHeadCommit(refs, HEAD, b)
           d == SgDescend(rf[b].tree, dir)
           items == SgLsItems(d.tree)
           entries == [i \in 1..Len(items) |->
                         [name |-> items[i][2],
                          type |-> IF items[i][3].type = "tree"
                                   THEN "directory" ELSE "file",
                          sha |-> items[i][3],
                          changed_in_branches |-> SgChangedIn(rf, b, dir, items[i])]]
       IN /\ refs' = rf
          /\ last' = IF d.ok
                     THEN Envelope("ls", b, dir, {}, TRUE, FALSE, NoRef, "", {}, entries)
                     ELSE Envelope("ls", b, dir, {}, FALSE, FALSE, NoRef, "", {}, <<>>)
    /\ UNCHANGED <<wt, objects, indexFile>>
    /\ UNCHANGED facadeFrame

\* delete(p, b, m)
SgDelete(p, b, m) ==
    /\ Tick
    /\ LET rf == SgGetHeadCommit(refs, HEAD, b)
           head == rf[b]
           built == SgBuildWorkingTreeIndex(head.tree, wt)
           unlinked == [built.wt EXCEPT ![p] = Absent]
           tracked == \E e \in built.index : e.path = p
           ix == {e \in built.index : e.path # p}
           commit == SgCreateCommit(ix, head, m)
       IN /\ wt' = unlinked
          /\ IF tracked
             THEN /\ objects' = objects \cup TreeObjects(commit.tree) \cup {commit}
                  /\ indexFile' = SgIndexFile(ix)
                  /\ refs' = [rf EXCEPT ![b] = commit]
                  /\ last' = Envelope("delete", b, p, {}, TRUE, TRUE, commit, m, {}, <<>>)
             ELSE /\ objects' = objects
                  /\ indexFile' = SgIndexFile(built.index)
                  /\ refs' = rf
                  /\ last' = Envelope("delete", b, p, {}, FALSE, FALSE, NoRef, m, {}, <<>>)
    /\ UNCHANGED facadeFrame

\* rename(old, new, b, m)
SgRename(old, new, b, m) ==
    /\ Tick
    /\ IF wt[old].kind = "absent"
       THEN /\ last' = Envelope("rename", b, old, {new}, FALSE, FALSE, NoRef, m, {}, <<>>)
            /\ UNCHANGED <<wt, objects, indexFile, refs>>
       ELSE LET rf == SgGetHeadCommit(refs, HEAD, b)
                head == rf[b]
                built == SgBuildWorkingTreeIndex(head.tree, wt)
                moved == [MakeDirs(built.wt, Parent(new)) EXCEPT
                             ![new] = built.wt[old], ![old] = Absent]
                tracked == \E e \in built.index : e.path = old
                entry == CHOOSE e \in built.index : e.path = old
                ix == IndexPut({e \in built.index : e.path # old},
                               new, entry.sha, entry.mode)
                commit == SgCreateCommit(ix, head, m)
            IN /\ wt' = moved
               /\ IF tracked
                  THEN /\ objects' = objects \cup TreeObjects(commit.tree) \cup {commit}
                       /\ indexFile' = SgIndexFile(ix)
                       /\ refs' = [rf EXCEPT ![b] = commit]
                       /\ last' = Envelope("rename", b, old, {new}, TRUE, TRUE, commit, m, {}, <<>>)
                  ELSE /\ objects' = objects
                       /\ indexFile' = SgIndexFile(built.index)
                       /\ refs' = rf
                       /\ last' = Envelope("rename", b, old, {new}, FALSE, FALSE, NoRef, m, {}, <<>>)
    /\ UNCHANGED facadeFrame

\* create_branch(name, from_branch)
SgCreateBranch(name, from) ==
    /\ Tick
    /\ IF refs[from] = NoRef
       THEN /\ last' = Envelope("create_branch", name, <<>>, {}, FALSE, FALSE, NoRef, "", {}, <<>>)
            /\ UNCHANGED refs
       ELSE /\ refs' = [refs EXCEPT ![name] = refs[from]]
            /\ last' = Envelope("create_branch", name, <<>>, {}, TRUE, FALSE, NoRef, "", {}, <<>>)
    /\ UNCHANGED <<wt, objects, indexFile>>
    /\ UNCHANGED facadeFrame

\* The max_entries logs is called with when the caller gives none.
DefaultMaxEntries == 100
\* The limits the model calls logs and log with.
LogLimits == {0, 1, 2, DefaultMaxEntries}

\* Mutant of SgLogsContinue: the loop runs once more than max_entries.
SgLogsContinueOnceMore(count, max) == count <= max

\* logs: the loop goes on while count < max_entries.
SgLogsContinue(count, max) == count < max

\* logs: the walk from sha with count entries already listed; it follows
\* parents[0] and ends at a commit that has no parent.
RECURSIVE SgLogWalk(_, _, _)
SgLogWalk(sha, count, max) ==
    IF sha = NoRef \/ ~SgLogsContinue(count, max) THEN <<>>
    ELSE <<sha>> \o (IF sha.parents = <<>> THEN <<>>
                     ELSE SgLogWalk(sha.parents[1], count + 1, max))

\* logs(b): the commits from the tip of b along the first parents; the
\* empty list for a branch that has no ref.
SgLogList(sha) == SgLogWalk(sha, 0, DefaultMaxEntries)

\* logs(b, max_entries)
SgLogs(b, max) ==
    /\ Tick
    /\ last' = Envelope("logs", b, <<>>, {max}, TRUE, FALSE, NoRef, "", {},
                        SgLogWalk(refs[b], 0, max))
    /\ UNCHANGED <<wt, objects, indexFile, refs>>
    /\ UNCHANGED facadeFrame

\* The orders in which refs.keys() can hand out the branches: the keys
\* are a set, so every order of the existing branches.
SgRefsKeyOrders ==
    LET names == {b \in Branches : refs[b] # NoRef}
    IN {q \in UNION {[1..n -> names] : n \in 0..Cardinality(names)} :
           /\ Len(q) = Cardinality(names)
           /\ \A i, j \in 1..Len(q) : i # j => q[i] # q[j]}

\* branches(): the names under refs/heads, in the order of refs.keys().
SgBranches(order) ==
    /\ Tick
    /\ order \in SgRefsKeyOrders
    /\ last' = Envelope("branches", "", <<>>, {}, TRUE, FALSE, NoRef, "", {}, order)
    /\ UNCHANGED <<wt, objects, indexFile, refs>>
    /\ UNCHANGED facadeFrame

\* status(): the paths of the index.
SgStatus ==
    /\ Tick
    /\ last' = Envelope("status", "", <<>>, {}, TRUE, FALSE, NoRef, "",
                        {e.path : e \in indexFile.entries}, <<>>)
    /\ UNCHANGED <<wt, objects, indexFile, refs>>
    /\ UNCHANGED facadeFrame

\* SimpleGit(path) on a directory that has no .git yet and may hold files.
InitFacade ==
    /\ wt \in FacadeWorkTrees
    /\ objects = {EmptyTree, SgInitialCommit}
    /\ refs = [b \in Branches |-> IF b = "main" THEN SgInitialCommit ELSE NoRef]
    /\ HEAD = "main"
    /\ cur = "main"
    /\ tags = [t \in TagNames |-> NoRef]
    /\ remotes = [b \in Branches |-> NoRef]
    /\ index = {}
    /\ indexFile = [exists |-> FALSE, entries |-> {}]
    /\ rrefs = [b \in Branches |-> NoRef]
    /\ robjects = {}
    /\ steps = 0
    /\ last = Envelope("init", "main", <<>>, {}, TRUE, FALSE, NoRef, "", {}, <<>>)
    /\ odb = {}
    /\ call = NoCall

NextFacade ==
    \/ \E p \in FacadePaths, c \in Contents, b \in Branches, m \in Messages :
          SgWrite(p, c, b, m)
    \/ \E p \in FacadePaths, b \in Branches : SgRead(p, b)
    \/ \E dir \in LsDirs, b \in Branches : SgLs(dir, b)
    \/ \E p \in FacadePaths, b \in Branches, m \in Messages : SgDelete(p, b, m)
    \/ \E old \in FacadePaths, b \in Branches, m \in Messages :
          \E new \in FacadePaths \ {old} : SgRename(old, new, b, m)
    \/ \E name \in Branches, from \in Branches : SgCreateBranch(name, from)
    \/ \E b \in Branches, max \in LogLimits : SgLogs(b, max)
    \/ \E order \in SgRefsKeyOrders : SgBranches(order)
    \/ SgStatus

SpecFacade == InitFacade /\ [][NextFacade]_vars

\* ------------------------------------------- the order of the writes
\* commit, merge, the initial commit and push, one statement that writes
\* at a time.  last is the call in progress: its name and argument, the
\* statement it stands before (pc), the tree and the commit it has hashed,
\* whether it has written its ref, and the refs as they were when it was
\* called.  An I/O error can end the call before any of its statements.
Progress(op, arg, pc) ==
    [op |-> op, arg |-> arg, pc |-> pc, tree |-> NoRef, commit |-> NoRef,
     wrote |-> FALSE, refs0 |-> refs, rrefs0 |-> rrefs]

OrdIdle == last.pc \in {"idle", "done", "failed"}

ordFrame == <<wt, HEAD, cur, tags, remotes, odb, call>>

\* A call of commit(m), merge(b) or push(remote, b), up to its first
\* statement that writes; merge and push raise ValueError here.
OrdCall(op, arg) ==
    /\ OrdIdle
    /\ steps < MaxSteps
    /\ steps' = steps + 1
    /\ \/ op = "commit" /\ arg \in Messages
       \/ op \in {"merge", "push"} /\ arg \in Branches
    /\ last' = Progress(op, arg,
           CASE op = "commit" -> "tree"
             [] op = "merge" ->
                  IF refs[arg] = NoRef \/ GetHeadCommit = NoRef THEN "failed" ELSE "tree"
             [] OTHER -> IF refs[arg] = NoRef THEN "failed" ELSE "ref")
    /\ UNCHANGED <<objects, refs, index, indexFile, rrefs, robjects>>
    /\ UNCHANGED ordFrame

\* _create_tree_from_index(), or the empty tree of the initial commit:
\* the tree, its subtrees and its blobs are hashed and stored.
OrdCreateTree ==
    /\ last.pc = "tree"
    /\ LET tree == IF last.op = "initial" THEN EmptyTree
                   ELSE CreateTreeFromIndex(wt, <<>>)
       IN /\ objects' = objects \cup TreeObjects(tree)
          /\ last' = [last EXCEPT !.pc = "object", !.tree = tree]
    /\ UNCHANGED <<refs, index, indexFile, rrefs, robjects, steps>>
    /\ UNCHANGED ordFrame

\* _hash_object(commit_content, "commit")
OrdHashCommit ==
    /\ last.pc = "object"
    /\ LET c == CASE last.op = "initial" -> InitialCommit
                  [] last.op = "commit" ->
                       CommitObj(last.tree, CommitParents(GetHeadCommit), last.arg)
                  [] OTHER ->
                       CommitObj(last.tree, <<GetHeadCommit, refs[last.arg]>>,
                                 MergeMessage(last.arg))
       IN /\ objects' = objects \cup {c}
          /\ last' = [last EXCEPT !.pc = "ref", !.commit = c]
    /\ UNCHANGED <<refs, index, indexFile, rrefs, robjects, steps>>
    /\ UNCHANGED ordFrame

\* branch_file.write_text(commit_sha); merge returns after it.
OrdWriteRef ==
    /\ last.pc = "ref"
    /\ last.op # "push"
    /\ refs' = [refs EXCEPT ![cur] = last.commit]
    /\ last' = [last EXCEPT !.pc = IF last.op = "merge" THEN "done" ELSE "index",
                            !.wrote = TRUE]
    /\ UNCHANGED <<objects, index, indexFile, rrefs, robjects, steps>>
    /\ UNCHANGED ordFrame

\* _rebuild_index_from_tree(tree_sha), or index.clear() and
\* _write_index() in the initial commit.
OrdRebuildIndex ==
    /\ last.pc = "index"
    /\ index' = IF last.op = "initial" THEN {}
                ELSE RebuildIndexFromTree(last.tree, <<>>)
    /\ indexFile' = WriteIndex(index')
    /\ last' = [last EXCEPT !.pc = "done"]
    /\ UNCHANGED <<objects, refs, rrefs, robjects, steps>>
    /\ UNCHANGED ordFrame

\* push: shutil.copy(local_branch, remote_branch)
OrdPushRef ==
    /\ last.pc = "ref"
    /\ last.op = "push"
    /\ rrefs' = [rrefs EXCEPT ![last.arg] = refs[last.arg]]
    /\ last' = [last EXCEPT !.pc = "copy", !.wrote = TRUE]
    /\ UNCHANGED <<objects, refs, index, indexFile, robjects, steps>>
    /\ UNCHANGED ordFrame

\* push: the loop that copies the local object files to the remote.
OrdPushObjects ==
    /\ last.pc = "copy"
    /\ robjects' = robjects \cup objects
    /\ last' = [last EXCEPT !.pc = "done"]
    /\ UNCHANGED <<objects, refs, index, indexFile, rrefs, steps>>
    /\ UNCHANGED ordFrame

\* The next statement raises (the disk is full, a directory is missing):
\* the call ends with what it has written so far.
OrdFail ==
    /\ ~OrdIdle
    /\ last' = [last EXCEPT !.pc = "failed"]
    /\ UNCHANGED <<objects, refs, index, indexFile, rrefs, robjects, steps>>
    /\ UNCHANGED ordFrame

\* TrueGit(path, initial_commit=ic) after _init_repository, before
\* _create_initial_commit when ic is set.
InitOrder ==
    /\ wt \in WorkTrees
    /\ objects = {}
    /\ refs = [b \in Branches |-> NoRef]
    /\ HEAD = "main"
    /\ cur = "main"
    /\ tags = [t \in TagNames |-> NoRef]
    /\ remotes = [b \in Branches |-> NoRef]
    /\ index = {}
    /\ indexFile = WriteIndex({})
    /\ rrefs = [b \in Branches |-> IF b = "main" THEN ForeignCommit ELSE NoRef]
    /\ robjects = {EmptyTree, ForeignCommit}
    /\ steps = 0
    /\ \E ic \in BOOLEAN :
          last = Progress("initial", "", IF ic THEN "tree" ELSE "idle")
    /\ odb = {}
    /\ call = NoCall

NextOrder ==
    \/ \E op \in {"commit", "merge", "push"}, arg \in Messages \cup Branches :
          OrdCall(op, arg)
    \/ OrdCreateTree
    \/ OrdHashCommit
    \/ OrdWriteRef
    \/ OrdRebuildIndex
    \/ OrdPushRef
    \/ OrdPushObjects
    \/ OrdFail

SpecOrder == InitOrder /\ [][NextOrder]_vars

\* ------------------------------------------------- the object formats
\* The serialisers and parsers of trees, commits and index entries, on
\* bytes.  A str is a sequence of characters, bytes are a sequence of
\* integers 0..255, and call is the conversion made on a fresh handle,
\* with its arguments and its results.
Ascii == [chars |-> <<SP, "*", ".", "/", "0", "1", "4", "5", "6", "7",
                      "a", "b", "d", "e", "i", "m", "n", "v">>,
          codes |-> <<32, 42, 46, 47, 48, 49, 52, 53, 54, 55,
                      97, 98, 100, 101, 105, 109, 110, 118>>]

\* ord(c)
Ord(c) == Ascii.codes[CHOOSE i \in 1..Len(Ascii.chars) : Ascii.chars[i] = c]
\* chr(b)
Chr(b) == Ascii.chars[CHOOSE i \in 1..Len(Ascii.codes) : Ascii.codes[i] = b]

\* str.encode() and bytes.decode() of ASCII text.
StrEncode(str) == [i \in 1..Len(str) |-> Ord(str[i])]
BytesDecode(bytes) == [i \in 1..Len(bytes) |-> Chr(bytes[i])]

HexDigits == <<"0", "1", "2", "3", "4", "5", "6", "7", "8", "9",
               "a", "b", "c", "d", "e", "f">>

\* bytes.hex(): two digits for each byte.
RECURSIVE BytesHex(_)
BytesHex(bytes) ==
    IF bytes = <<>> THEN <<>>
    ELSE <<HexDigits[(Head(bytes) \div Len(HexDigits)) + 1],
           HexDigits[(Head(bytes) % Len(HexDigits)) + 1]>> \o BytesHex(Tail(bytes))

\* bytes.fromhex(): one byte for each two digits.
RECURSIVE BytesFromHex(_)
BytesFromHex(hex) ==
    IF Len(hex) < 2 THEN <<>>
    ELSE LET HexValue(c) == (CHOOSE i \in 1..Len(HexDigits) : HexDigits[i] = c) - 1
         IN <<HexValue(hex[1]) * Len(HexDigits) + HexValue(hex[2])>>
              \o BytesFromHex(SubSeq(hex, 3, Len(hex)))

\* The length of a SHA-1 in bytes.
OidLen == 20

\* What iterdir() finds for one name: a file, an executable file or a
\* directory, and the oid its content hashes to.  The oids, in binary:
\* all NUL, all spaces, all 0xab, and one ending in NUL.
DirItems ==
    LET RawOids == {[i \in 1..OidLen |-> b] : b \in {0, 32, 171}}
                     \cup {[i \in 1..OidLen |-> IF i = OidLen THEN 0 ELSE 49]}
    IN [name : {<<"a">>, <<"a", ".", "b">>, <<"a", "b">>, <<"a", SP>>,
                <<SP, "a">>, <<".", "a">>},
        kind : {"file", "exec", "dir"},
        sha1 : {BytesHex(r) : r \in RawOids}]

\* The directories the model builds trees from: none, one or two items.
Listings ==
    {{}} \cup {{e} : e \in DirItems}
         \cup {p \in {{e, f} : e \in DirItems, f \in DirItems} :
                  \A e \in p, f \in p : e.name = f.name => e = f}

\* a < b for two byte strings, as Python compares bytes and str.
BytesLess(a, b) ==
    \E k \in 1..(Len(a) + 1) :
        /\ k <= Len(b)
        /\ \A j \in 1..(k - 1) : a[j] = b[j]
        /\ k = Len(a) + 1 \/ a[k] < b[k]

\* sorted(path.iterdir()): by name.
RECURSIVE SortedItems(_)
SortedItems(items) ==
    IF items = {} THEN <<>>
    ELSE LET m == CHOOSE x \in items : \A y \in items \ {x} :
                      BytesLess(StrEncode(x.name), StrEncode(y.name))
         IN <<m>> \o SortedItems(items \ {m})

\* The (mode, name, sha1) entry _create_tree_from_index appends for an item.
ItemEntry(e) ==
    <<CASE e.kind = "file" -> <<"1", "0", "0", "6", "4", "4">>
        [] e.kind = "exec" -> <<"1", "0", "0", "7", "5", "5">>
        [] OTHER -> <<"4", "0", "0", "0", "0">>,
      e.name, e.sha1>>

\* tree_content: for each entry f"{mode} {name}\0".encode() and
\* bytes.fromhex(sha1).
RECURSIVE SerialiseTree(_)
SerialiseTree(entries) ==
    IF entries = <<>> THEN <<>>
    ELSE LET e == Head(entries)
         IN StrEncode(e[1] \o <<SP>> \o e[2]) \o <<0>> \o BytesFromHex(e[3])
              \o SerialiseTree(Tail(entries))

\* content.index(b, i): the first position >= i that holds b; 0 when
\* there is none (ValueError).
IndexOf(content, b, i) ==
    IF \E j \in i..Len(content) : content[j] = b
    THEN CHOOSE j \in i..Len(content) :
            content[j] = b /\ \A k \in i..(j - 1) : content[k] # b
    ELSE 0

\* Mutant of NextEntry: the next entry starts right after 19 oid bytes.
NextEntryEarly(nul) == nul + OidLen

\* i = null_idx + 21: the next entry starts after the 20 oid bytes.
NextEntry(nul) == nul + OidLen + 1

\* _parse_tree from position i on.
RECURSIVE ParseTreeFrom(_, _)
ParseTreeFrom(content, i) ==
    IF i > Len(content) THEN [ok |-> TRUE, entries |-> <<>>]
    ELSE LET space == IndexOf(content, 32, i)
             nul == IF space = 0 THEN 0 ELSE IndexOf(content, 0, space)
         IN IF space = 0 \/ nul = 0 THEN [ok |-> FALSE, entries |-> <<>>]
            ELSE LET rest == ParseTreeFrom(content, NextEntry(nul))
                     last1 == IF nul + OidLen <= Len(content)
                              THEN nul + OidLen ELSE Len(content)
                     entry == <<BytesDecode(SubSeq(content, i, space - 1)),
                                BytesDecode(SubSeq(content, space + 1, nul - 1)),
                                BytesHex(SubSeq(content, nul + 1, last1))>>
                 IN [ok |-> rest.ok, entries |-> <<entry>> \o rest.entries]

ParseTree(content) == ParseTreeFrom(content, 1)

\* _create_tree_from_index on a directory holding items, then
\* _parse_tree on the bytes it stored.
FmtTree(items) ==
    /\ call = NoCall
    /\ call' = [op |-> "tree", items |-> items,
                entries |-> [i \in 1..Cardinality(items) |->
                                ItemEntry(SortedItems(items)[i])],
                bytes |-> SerialiseTree([i \in 1..Cardinality(items) |->
                                ItemEntry(SortedItems(items)[i])]),
                parsed |-> ParseTree(SerialiseTree(
                                [i \in 1..Cardinality(items) |->
                                    ItemEntry(SortedItems(items)[i])]))]
    /\ UNCHANGED odb
    /\ UNCHANGED engineVars

\* The characters of a branch name.
BranchChars(b) ==
    IF b = "main" THEN <<"m", "a", "i", "n">> ELSE <<"d", "e", "v">>

\* list_branches(): each branch file under refs/heads as "* name" for the
\* current branch and "  name" for the others, then sorted() as strings.
ListBranches ==
    LET lines == {(IF b = cur THEN <<"*", SP>> ELSE <<SP, SP>>) \o BranchChars(b) :
                     b \in {x \in Branches : refs[x] # NoRef}}
        RECURSIVE SortedStrs(_)
        SortedStrs(S) ==
            IF S = {} THEN <<>>
            ELSE LET m == CHOOSE x \in S : \A y \in S \ {x} :
                              BytesLess(StrEncode(x), StrEncode(y))
                 IN <<m>> \o SortedStrs(S \ {m})
    IN SortedStrs(lines)

\* The characters str.split() and str.strip() take for whitespace.
Whitespace == {SP, LF, CR, "\t"}

\* str.split(sep) for a one-character sep: the pieces between the
\* separators, empty pieces included.
RECURSIVE SplitOn(_, _)
SplitOn(str, sep) ==
    IF \A i \in 1..Len(str) : str[i] # sep THEN <<str>>
    ELSE LET k == CHOOSE i \in 1..Len(str) :
                      str[i] = sep /\ \A j \in 1..(i - 1) : str[j] # sep
         IN <<SubSeq(str, 1, k - 1)>> \o SplitOn(SubSeq(str, k + 1, Len(str)), sep)

\* str.split(): the words between runs of whitespace.
RECURSIVE SplitWords(_)
SplitWords(str) ==
    IF str = <<>> THEN <<>>
    ELSE IF Head(str) \in Whitespace THEN SplitWords(Tail(str))
    ELSE LET ends == {i \in 1..Len(str) : str[i] \in Whitespace}
             k == IF ends = {} THEN Len(str) + 1
                  ELSE CHOOSE i \in ends : \A j \in ends : i <= j
         IN <<SubSeq(str, 1, k - 1)>> \o SplitWords(SubSeq(str, k, Len(str)))

\* '\n'.join(lines)
RECURSIVE JoinLines(_)
JoinLines(lines) ==
    IF lines = <<>> THEN <<>>
    ELSE IF Len(lines) = 1 THEN lines[1]
    ELSE lines[1] \o <<LF>> \o JoinLines(Tail(lines))

\* str.strip(): without the whitespace at both ends.
RECURSIVE Strip(_)
Strip(str) ==
    IF str = <<>> THEN <<>>
    ELSE IF Head(str) \in Whitespace THEN Strip(Tail(str))
    ELSE IF str[Len(str)] \in Whitespace THEN Strip(SubSeq(str, 1, Len(str) - 1))
    ELSE str

\* The words that open the header lines of a commit.
Kw == [tree |-> <<"t", "r", "e", "e", SP>>,
       parent |-> <<"p", "a", "r", "e", "n", "t", SP>>,
       author |-> <<"a", "u", "t", "h", "o", "r", SP>>,
       committer |-> <<"c", "o", "m", "m", "i", "t", "t", "e", "r", SP>>]

\* The header lines and the message as commit and merge lay them out:
\* the text that is encoded and hashed.  author and committer are the
\* whole rest of their lines, date and zone included.
CommitText(tree, parents, author, committer, message) ==
    Kw.tree \o tree \o <<LF>>
      \o (IF Len(parents) >= 1 THEN Kw.parent \o parents[1] \o <<LF>> ELSE <<>>)
      \o (IF Len(parents) >= 2 THEN Kw.parent \o parents[2] \o <<LF>> ELSE <<>>)
      \o Kw.author \o author \o <<LF>>
      \o Kw.committer \o committer \o <<LF>>
      \o <<LF>> \o message \o <<LF>>

\* commit_content of commit(message, author, committer, date)
CommitContent(tree, parents, author, committer, date, message) ==
    CommitText(tree, parents,
               author \o <<SP>> \o date \o <<SP, "+", "0", "0", "0", "0">>,
               committer \o <<SP>> \o date \o <<SP, "+", "0", "0", "0", "0">>,
               message)

\* The loop of _parse_commit over the lines, from line i on.
RECURSIVE ParseCommitLines(_, _, _)
ParseCommitLines(lines, i, info) ==
    IF i > Len(lines) THEN info
    ELSE LET line == lines[i]
             StartsWith(str, prefix) ==
                 Len(str) >= Len(prefix) /\ SubSeq(str, 1, Len(prefix)) = prefix
         IN
         IF StartsWith(line, Kw.tree)
         THEN ParseCommitLines(lines, i + 1, [info EXCEPT !.tree = SplitWords(line)[2]])
         ELSE IF StartsWith(line, Kw.parent)
         THEN ParseCommitLines(lines, i + 1,
                  [info EXCEPT !.parents = Append(@, SplitWords(line)[2])])
         ELSE IF StartsWith(line, Kw.author)
         THEN ParseCommitLines(lines, i + 1,
                  [info EXCEPT !.author = SubSeq(line, Len(Kw.author) + 1, Len(line))])
         ELSE IF StartsWith(line, Kw.committer)
         THEN ParseCommitLines(lines, i + 1,
                  [info EXCEPT !.committer = SubSeq(line, Len(Kw.committer) + 1, Len(line))])
         ELSE IF line = <<>>
         THEN [info EXCEPT !.message = Strip(JoinLines(SubSeq(lines, i + 1, Len(lines))))]
         ELSE ParseCommitLines(lines, i + 1, info)

\* _parse_commit on the text of a commit object.
ParseCommit(content) ==
    ParseCommitLines(SplitOn(content, LF), 1,
        [tree |-> <<>>, parents |-> <<>>, author |-> <<>>, committer |-> <<>>,
         message |-> <<>>])

\* commit (or merge, for two parents) writes a commit object; it is
\* parsed with _parse_commit and the parsed fields are laid out again.
FmtCommit(parents, author, committer, message) ==
    /\ call = NoCall
    /\ LET content == CommitContent(<<"e", "f">>, parents, author, committer,
                                    <<"1">>, message)
           info == ParseCommit(content)
       IN call' = [op |-> "commit", message |-> message, content |-> content,
                   info |-> info,
                   again |-> CommitText(info.tree, info.parents, info.author,
                                        info.committer, info.message)]
    /\ UNCHANGED odb
    /\ UNCHANGED engineVars

\* A stat value or packed field, as two 16-bit halves: the integer
\* hi * 2^16 + lo.  A value of 2^32 or more has hi >= 2^16.
Half == 65536
\* The 12 bits of the flags that hold the name length: 0xFFF.
NameMask == 4095

\* value & 0xFFFFFFFF
Mask32(v) == [hi |-> v.hi % Half, lo |-> v.lo]

\* struct.pack('>I', value): four bytes, the most significant first.
Pack32(v) == <<v.hi \div 256, v.hi % 256, v.lo \div 256, v.lo % 256>>

\* Mutant of PadLen: the count of NUL bytes starts at zero.
PadLenFromZero(total) == CHOOSE p \in 0..7 : (total + p) % 8 = 0

\* padlen: starting from 1, the first count that makes the entry's
\* length a multiple of 8.
PadLen(total) == CHOOSE p \in 1..8 : (total + p) % 8 = 0

\* The entry _write_index builds for a path of n bytes with the given
\* stat values, mode and oid; ok is FALSE when struct.pack raises
\* struct.error because a value does not fit in 32 bits.
IndexEntry(n, st, mode, sha) ==
    LET small == [hi |-> 0, lo |-> 1]
        fields == <<small, small, small, small, Mask32(st.dev), Mask32(st.ino),
                    mode, small, small, st.size>>
        flags == IF n < NameMask THEN n ELSE NameMask
        packed == Pack32(fields[1]) \o Pack32(fields[2]) \o Pack32(fields[3])
                    \o Pack32(fields[4]) \o Pack32(fields[5]) \o Pack32(fields[6])
                    \o Pack32(fields[7]) \o Pack32(fields[8]) \o Pack32(fields[9])
                    \o Pack32(fields[10])
        prefix == packed \o BytesFromHex(sha) \o <<flags \div 256, flags % 256>>
    IN IF \E i \in 1..Len(fields) : fields[i].hi >= Half
       THEN [ok |-> FALSE, bytes |-> <<>>]
       ELSE [ok |-> TRUE,
             bytes |-> prefix \o [i \in 1..n |-> 97]
                         \o [i \in 1..PadLen(Len(prefix) + n) |-> 0]]

\* The stat values the model takes for st_dev, st_ino and st_size: 5,
\* 2^32 - 1, 2^32 and 2^32 + 7.
StatValues ==
    {[hi |-> 0, lo |-> 5], [hi |-> Half - 1, lo |-> Half - 1],
     [hi |-> Half, lo |-> 0], [hi |-> Half, lo |-> 7]}

\* _write_index with one staged file whose path has n bytes.
FmtIndexEntry(n, st) ==
    /\ call = NoCall
    /\ call' = [op |-> "index", n |-> n, st |-> st,
                sha |-> BytesHex([i \in 1..OidLen |-> 171]),
                entry |-> IndexEntry(n, st, [hi |-> 0, lo |-> 33188],
                                     BytesHex([i \in 1..OidLen |-> 171]))]
    /\ UNCHANGED odb
    /\ UNCHANGED engineVars

NextFormat ==
    \/ \E items \in Listings : FmtTree(items)
    \/ \E parents \in {<<>>, <<<<"a", "b">>>>, <<<<"a", "b">>, <<"c", "d">>>>},
          author \in {<<"A">>, <<"A", SP, "<", "e", ">">>},
          committer \in {<<"A">>, <<"A", SP, "<", "e", ">">>},
          message \in SeqsUpTo({"m", SP, LF}, MaxLen) :
          FmtCommit(parents, author, committer, message)
    \/ \E n \in (1..(8 * MaxLen)) \cup ((NameMask - 1)..(NameMask + 3)),
          dev \in {[hi |-> 0, lo |-> 5], [hi |-> Half, lo |-> 7]},
          ino \in {[hi |-> 0, lo |-> 5], [hi |-> Half, lo |-> 7]},
          size \in StatValues :
          FmtIndexEntry(n, [dev |-> dev, ino |-> ino, size |-> size])

SpecFormat == InitStore /\ [][NextFormat]_vars

\* ------------------------------------------------------------ handles
\* Handles on one repository.  The first handle's memory is cur and index,
\* as in the engine; a second handle's memory, once it is open, is held in
\* call.

\* add(p): stage the file p, or every file under the directory p that has
\* no .git component, then write .git/index from the handle's index.
Add(p) ==
    /\ Tick
    /\ LET staged == IF wt[p].kind = "file" THEN {p}
                     ELSE {q \in WorkFiles(wt) : IsPrefix(p, q)}
           entries == {[path |-> q, sha |-> Blob(wt[q].data),
                        mode |-> IF wt[q].exec THEN "100755" ELSE "100644"]
                       : q \in staged}
       IN IF wt[p].kind = "absent"
          THEN /\ last' = Op("add", "", FALSE, FALSE)
               /\ UNCHANGED <<objects, index, indexFile>>
          ELSE /\ objects' = objects \cup {e.sha : e \in entries}
               /\ index' = {e \in index : e.path \notin staged} \cup entries
               /\ indexFile' = WriteIndex(index')
               /\ last' = Op("add", "", TRUE, FALSE)
    /\ UNCHANGED <<wt, HEAD, cur, refs, tags, remotes, rrefs, robjects>>

\* A constructor that keeps its branch argument on an existing repository.
ReopenKeepsArgument(b) ==
    /\ Tick
    /\ cur' = b
    /\ index' = {}
    /\ last' = Op("open", b, TRUE, FALSE)
    /\ UNCHANGED <<wt, objects, HEAD, refs, tags, remotes, indexFile,
                   rrefs, robjects>>

\* TrueGit(path, branch=b) on the existing repository, replacing the first
\* handle: the index starts empty and _load_current_branch takes the
\* branch from HEAD, which always holds "ref: refs/heads/<branch>".
Reopen(b) ==
    /\ Tick
    /\ cur' = HEAD
    /\ index' = {}
    /\ last' = Op("open", b, TRUE, FALSE)
    /\ UNCHANGED <<wt, objects, HEAD, refs, tags, remotes, indexFile,
                   rrefs, robjects>>

\* TrueGit(path, branch=b) on the existing repository, as a second handle.
OpenSecond(b) ==
    /\ steps < MaxSteps
    /\ steps' = steps + 1
    /\ call' = [op |-> "handle", branch |-> HEAD, index |-> {}]
    /\ last' = Op("open", b, TRUE, FALSE)
    /\ UNCHANGED <<wt, objects, HEAD, cur, refs, tags, remotes, index,
                   indexFile, rrefs, robjects, odb>>

\* commit(m) through the second handle: the ref written is that of the
\* branch the handle holds.
CommitSecond(m) ==
    /\ call # NoCall
    /\ steps < MaxSteps
    /\ steps' = steps + 1
    /\ LET tree == CreateTreeFromIndex(wt, <<>>)
           c == CommitObj(tree, CommitParents(refs[call.branch]), m)
       IN /\ objects' = objects \cup TreeObjects(tree) \cup {c}
          /\ refs' = [refs EXCEPT ![call.branch] = c]
          /\ call' = [call EXCEPT !.index = RebuildIndexFromTree(tree, <<>>)]
          /\ indexFile' = WriteIndex(call'.index)
    /\ last' = Op("commit", call.branch, TRUE, FALSE)
    /\ UNCHANGED <<wt, HEAD, cur, tags, remotes, index, rrefs, robjects, odb>>

NextHandles ==
    \/ \E p \in FilePaths, c \in Contents : WriteFile(p, c, FALSE)
    \/ \E p \in Paths \ {<<".git">>} : Add(p)
    \/ \E m \in Messages : Commit(m)
    \/ \E b \in Branches : CreateBranch(b)
    \/ \E b \in Branches : Switch(b)
    \/ \E sha \in ResetTargets, hard \in BOOLEAN : Reset(sha, hard)
    \/ \E b \in Branches : Merge(b)
    \/ \E b \in Branches : Reopen(b)
    \/ \E b \in Branches : OpenSecond(b)
    \/ \E m \in Messages : CommitSecond(m)

\* The repository the handles share: new, or holding its initial commit
\* on main, or that commit with the branch dev created from it.
InitHandles ==
    /\ wt \in WorkTrees
    /\ \E ic \in BOOLEAN, dev \in BOOLEAN :
        /\ dev => ic
        /\ objects = IF ic THEN {EmptyTree, InitialCommit} ELSE {}
        /\ refs = [b \in Branches |->
                     IF ic /\ (b = "main" \/ dev) THEN InitialCommit ELSE NoRef]
    /\ HEAD = "main"
    /\ cur = "main"
    /\ tags = [t \in TagNames |-> NoRef]
    /\ remotes = [b \in Branches |-> NoRef]
    /\ index = {}
    /\ indexFile = WriteIndex({})
    /\ rrefs = [b \in Branches |-> NoRef]
    /\ robjects = {}
    /\ steps = 0
    /\ last = [op |-> "init", arg |-> "", ok |-> TRUE, changed |-> FALSE,
               again |-> FALSE]
    /\ odb = {}
    /\ call = NoCall

SpecHandles == InitHandles /\ [][NextHandles]_vars


\* The branch a repository is created on.
DefaultBranch == "main"

\* ------------------------------------------------------------- claims
Successful(name) == last.op = name /\ last.ok

\* C1: after a successful switch(b), HEAD names b, every file of the tree
\* of b's tip is in the working directory with the same bytes, and nothing
\* exists outside .git that the tree does not name.
C1_SwitchMaterialisesTree ==
    Successful("switch") =>
        LET t == refs[last.arg].tree IN
        /\ HEAD = last.arg
        /\ \A f \in WalkTree(t, <<>>) :
              wt[f.path].kind = "file" /\ wt[f.path].data = f.sha.data
        /\ \A p \in Paths :
              (p[1] # GitName /\ wt[p].kind # "absent") => p \in TreePaths(t, <<>>)

\* A successful switch that changed the working directory and left files
\* of the target tree in it.
C1_Witness ==
    /\ Successful("switch")
    /\ last.changed
    /\ WalkTree(refs[last.arg].tree, <<>>) # {}

\* C2: after a successful switch(b), the handle's index and .git/index
\* hold exactly one entry per file of b's tip tree, with its mode and oid.
C2_SwitchRebuildsIndex ==
    Successful("switch") =>
        /\ index = TreeIndex(refs[last.arg].tree)
        /\ indexFile.entries = TreeIndex(refs[last.arg].tree)

\* C3: after every successful commit, the index holds exactly the files
\* of the committed tree, at any depth, and no other entry.
C3_CommitRebuildsIndex ==
    Successful("commit") => index = TreeIndex(refs[cur].tree)

\* C4: every existing branch ref holds the oid of a commit that is in the
\* object store.
C4_RefsNameStoredCommits ==
    \A b \in Branches : refs[b] # NoRef => IsCommit(refs[b])

\* C5: a commit step creates a stored commit whose parents are exactly the
\* previous tip of the current branch (none when it was unborn), points
\* the current branch at it, and leaves HEAD, the other branches and the
\* tags as they were.
C5_CommitAdvancesCurrentBranch ==
    [][last'.op = "commit" =>
        /\ refs'[cur] \in objects'
        /\ refs'[cur].type = "commit"
        /\ refs'[cur].parents = (IF refs[cur] = NoRef THEN <<>> ELSE <<refs[cur]>>)
        /\ \A b \in Branches \ {cur} : refs'[b] = refs[b]
        /\ HEAD' = HEAD
        /\ cur = HEAD
        /\ tags' = tags]_vars

\* A commit on a branch that had a tip, with another branch and a tag in
\* the repository.
C5_Witness ==
    /\ Successful("commit")
    /\ refs[cur].parents # <<>>
    /\ \E b \in Branches \ {cur} : refs[b] # NoRef
    /\ \E t \in TagNames : tags[t] # NoRef

\* C6: right after a successful commit, status() reports no modified, no
\* untracked and no deleted path.
C6_StatusCleanAfterCommit ==
    Successful("commit") =>
        Status = [modified |-> {}, untracked |-> {}, deleted |-> {}]

\* C9: a switch(b) that directly follows a successful switch(b) succeeds
\* and leaves HEAD, the working directory and the index as the first left
\* them.
C9_SwitchIdempotent ==
    [][(Successful("switch") /\ last'.op = "switch" /\ last'.arg = last.arg) =>
        /\ last'.ok
        /\ HEAD' = HEAD
        /\ wt' = wt
        /\ index' = index
        /\ indexFile' = indexFile]_vars

\* A second successful switch to the same branch, right after the first,
\* with files of the branch's tree in the working directory.
C9_Witness ==
    /\ Successful("switch")
    /\ last.again
    /\ WalkTree(refs[last.arg].tree, <<>>) # {}

\* C10: no stored tree has an entry named .git, and a switch or a hard
\* reset leaves .git in place and changes nothing in it but HEAD (switch)
\* or the current branch's ref (reset).
C10_GitDirUntouched ==
    [][/\ \A o \in objects' :
            o.type = "tree" => \A e \in Range(o.entries) : e[2] # GitName
       /\ last'.op \in {"switch", "reset_hard"} =>
            /\ wt'[<<GitName>>] = wt[<<GitName>>]
            /\ objects' = objects
            /\ tags' = tags
            /\ remotes' = remotes
            /\ indexFile' = indexFile
            /\ \A b \in Branches \ {cur} : refs'[b] = refs[b]
            /\ last'.op = "switch" => refs' = refs]_vars

\* A commit of a working directory that holds a nested .git entry next
\* to a file that the tree records.
C10_Witness ==
    /\ Successful("commit")
    /\ wt[<<"d", GitName>>].kind = "file"
    /\ \E f \in WalkTree(refs[cur].tree, <<>>) : f.path = <<"d", "x">>

\* C7: reading back the oid that storing (T, B) returned yields (T, B),
\* for every content B, the empty one and those with NUL bytes included.
C7_ReadBackWhatWasStored ==
    call.op = "hash" =>
        ReadObject(odb, call.sha) =
            [ok |-> TRUE, type |-> TypeBytes(call.type), content |-> call.data]

\* Content with a NUL byte has been stored next to another object.
C7_Witness ==
    /\ call.op = "hash"
    /\ NUL \in Range(call.data)
    /\ Cardinality(odb) > 1

C16_OnlyCommitBearsUnbornBranch ==
    [][(refs[HEAD] = NoRef /\ refs'[HEAD] # NoRef) => last'.op = "commit"]_vars

\* C17: a delete_branch step never removes the default branch's ref and
\* never leaves HEAD naming a branch without a ref when it named one with
\* a ref before.
C17_DefaultBranchSurvives ==
    [][last'.op = "delete_branch" =>
        /\ (refs[DefaultBranch] # NoRef => refs'[DefaultBranch] # NoRef)
        /\ (refs[HEAD] # NoRef => refs'[HEAD'] # NoRef)]_vars

\* C18: create_branch(name) on a name whose ref exists fails and leaves
\* every ref as it was.
C18_CreateExistingBranchRefused ==
    [][(last'.op = "create_branch" /\ refs[last'.arg] # NoRef) =>
        (~last'.ok /\ refs' = refs)]_vars

\* C19: switch(b) on a branch that has no ref file fails and leaves HEAD,
\* the handle's current branch, the working directory and the index as
\* they were.
C19_SwitchMissingBranchRefused ==
    [][(last'.op = "switch" /\ refs[last'.arg] = NoRef) =>
        /\ ~last'.ok
        /\ HEAD' = HEAD
        /\ cur' = cur
        /\ wt' = wt
        /\ index' = index
        /\ indexFile' = indexFile
        /\ refs' = refs]_vars

\* A refused switch to a branch other than HEAD's that has no ref file,
\* in a repository whose index and working directory hold files.
C19_Witness ==
    /\ last.op = "switch"
    /\ ~last.ok
    /\ last.arg # HEAD
    /\ refs[last.arg] = NoRef
    /\ index # {}
    /\ WorkFiles(wt) # {}

\* The commit a facade call on branch b starts from: the tip of b, or
\* the commit HEAD resolves to when b has no ref yet.
SgBase(b) == IF refs[b] = NoRef THEN refs[HEAD] ELSE refs[b]

\* C11: after write(p, c, b, m) returns success with created=true, read(p,
\* b) returns c; the new commit is the tip of b and its only parent is the
\* previous tip of b, or the commit HEAD named when b did not exist; every
\* other path reads as in that parent; and no other branch has moved.
C11_WriteThenRead ==
    [][(last'.op = "write" /\ last'.success /\ last'.created) =>
        LET b == last'.branch
            p == last'.file
        IN /\ refs'[b] = last'.commit
           /\ SgGetBlobContentFromCommit(refs'[b], p) = last'.input
           /\ refs'[b].parents = <<SgBase(b)>>
           /\ \A q \in Paths \ {p} :
                 SgGetBlobContentFromCommit(refs'[b], q) =
                 SgGetBlobContentFromCommit(SgBase(b), q)
           /\ \A o \in Branches \ {b} : refs'[o] = refs[o]]_vars

\* C12: write(p, c, b) on a branch whose tip already holds p with the bytes
\* of c returns success, created=false, commit=None and 'No changes',
\* stores nothing and moves no ref, so logs(b) keeps its length; and a
\* write that repeats the successful write before it, same path, bytes and
\* branch, leaves the branch where it was.
C12_SameBytesNoCommit ==
    [][/\ (/\ last'.op = "write"
           /\ refs[last'.branch] # NoRef
           /\ SgGetBlobContentFromCommit(refs[last'.branch], last'.file) = last'.input) =>
             /\ last'.success
             /\ ~last'.created
             /\ last'.commit = NoRef
             /\ last'.message = "No changes"
             /\ objects' = objects
             /\ refs' = refs
             /\ Len(SgLogList(refs'[last'.branch])) = Len(SgLogList(refs[last'.branch]))
       /\ (/\ last.op = "write" /\ last.success
           /\ last'.op = "write"
           /\ last'.branch = last.branch
           /\ last'.file = last.file
           /\ last'.input = last.input) =>
             /\ refs' = refs
             /\ Len(SgLogList(refs'[last'.branch])) = Len(SgLogList(refs[last'.branch]))]_vars

\* The working directory w and the index file ixf agree with commit c:
\* the index holds the files of c's tree and each is in w with its bytes.
AgreesWith(w, ixf, c) ==
    /\ ixf.entries = TreeIndex(c.tree)
    /\ \A f \in WalkTree(c.tree, <<>>) :
          w[f.path].kind = "file" /\ w[f.path].data = f.sha.data

\* C13: a write, delete or rename on a branch other than HEAD's leaves
\* HEAD as it was; when the working directory and the index agreed with
\* the tip of HEAD's branch before the call they agree with it after, and
\* no file that this tip does not name has appeared or changed in the
\* working directory.
C13_OriginalBranchRestored ==
    [][(/\ last'.op \in {"write", "delete", "rename"}
        /\ last'.branch # HEAD
        /\ AgreesWith(wt, indexFile, refs[HEAD])) =>
          /\ HEAD' = HEAD
          /\ AgreesWith(wt', indexFile', refs'[HEAD'])
          /\ \A p \in Paths :
                (wt'[p].kind = "file" /\ p \notin TreePaths(refs'[HEAD'].tree, <<>>))
                    => wt'[p] = wt[p]]_vars

\* C14: ls(dir, b) succeeds exactly when dir is the root or a directory
\* of the tip tree of b, and on success its entries are the names whose
\* parent in that tree is dir, each once.
C14_LsListsDirectChildren ==
    last.op = "ls" =>
        LET t == refs[last.branch].tree
            dir == last.file
            isDir == \/ dir = <<>>
                     \/ \E f \in WalkTree(t, <<>>) : IsPrefix(dir, f.path) /\ f.path # dir
            children == {q[Len(q)] : q \in {r \in TreePaths(t, <<>>) : Parent(r) = dir}}
        IN /\ last.success = isDir
           /\ last.success =>
                /\ {last.entries[i].name : i \in 1..Len(last.entries)} = children
                /\ Len(last.entries) = Cardinality(children)

\* A successful ls of the root of a branch whose tree has a file in a
\* subdirectory, with a file in the working directory that the tree lacks
\* and another branch whose tree differs.
C14_Witness ==
    /\ last.op = "ls"
    /\ last.success
    /\ last.file = <<>>
    /\ \E f \in WalkTree(refs[last.branch].tree, <<>>) : Len(f.path) = 2
    /\ \E p \in FacadePaths :
          /\ wt[p].kind = "file"
          /\ p \notin TreePaths(refs[last.branch].tree, <<>>)
    /\ \E o \in Branches \ {last.branch} :
          refs[o] # NoRef /\ refs[o].tree # refs[last.branch].tree

\* C15: right after a repository is opened on an empty directory, .git is
\* there, HEAD names main, main's ref names the only commit, that commit
\* has no parent and its tree has an entry .gitignore, and main is the
\* only branch.
C15_BootstrapCommitsGitignore ==
    (last.op = "init" /\ \A p \in Paths \ {<<GitName>>} : wt[p].kind = "absent") =>
        /\ wt[<<GitName>>] = DirNode
        /\ HEAD = "main"
        /\ IsCommit(refs["main"])
        /\ refs["main"].parents = <<>>
        /\ \E e \in Range(refs["main"].tree.entries) : e[2] = ".gitignore"
        /\ {o \in objects : o.type = "commit"} = {refs["main"]}
        /\ {b \in Branches : refs[b] # NoRef} = {"main"}

\* C20: a write, delete or rename that returns a commit id has made that
\* commit the tip of its branch, with the previous tip as its only parent;
\* one that returns commit=None has stored no commit and has created or
\* changed no ref.
C20_CommitIdentityIffCommitCreated ==
    [][last'.op \in {"write", "delete", "rename"} =>
        IF last'.commit # NoRef
        THEN /\ last'.commit \in objects'
             /\ refs'[last'.branch] = last'.commit
             /\ last'.commit.parents = <<SgBase(last'.branch)>>
        ELSE /\ {o \in objects' : o.type = "commit"} = {o \in objects : o.type = "commit"}
             /\ refs' = refs]_vars

\* C21: a read, ls, logs, branches or status step creates, changes and
\* deletes no ref; a read or ls of a branch that has no ref fails and the
\* branch still has no ref after it.
C21_QueriesArePure ==
    [][last'.op \in {"read", "ls", "logs", "branches", "status"} =>
        /\ refs' = refs
        /\ (last'.op \in {"read", "ls"} /\ refs[last'.branch] = NoRef) =>
              (~last'.success /\ refs'[last'.branch] = NoRef)]_vars

\* entry.get("last_commit") on an entry of ls: NoRef for a key the entry
\* does not have.
EntryLastCommit(e) ==
    IF "last_commit" \in DOMAIN e THEN e.last_commit ELSE NoRef

\* The tree entry (mode and oid) commit c has at path p; empty when it
\* has none.
EntryAt(c, p) ==
    LET d == SgDescend(c.tree, Parent(p))
    IN IF ~d.ok THEN {}
       ELSE {<<g[1], g[3]>> : g \in {h \in Range(d.tree.entries) : h[2] = p[Len(p)]}}

\* The last commit that touched path p in the first-parent history of c:
\* the oldest commit of the run from c in which p has the entry it has in c.
RECURSIVE LastTouch(_, _)
LastTouch(c, p) ==
    IF c.parents = <<>> \/ EntryAt(c.parents[1], p) # EntryAt(c, p) THEN c
    ELSE LastTouch(c.parents[1], p)

\* C22: every entry of a successful ls(dir, b) carries the last commit of
\* b's first-parent history that touched dir/name.
C22_LsEntriesCarryLastCommit ==
    (last.op = "ls" /\ last.success) =>
        \A i \in 1..Len(last.entries) :
            EntryLastCommit(last.entries[i]) =
                LastTouch(refs[last.branch], last.file \o <<last.entries[i].name>>)

\* The commit c, its tree and every tree and blob below it.
CommitClosure(c) == {c} \cup TreeObjects(c.tree)

\* C23: a step of commit, merge, the initial commit or push that writes a
\* branch ref writes the oid of a commit that is, with its trees and
\* blobs, already in the object store of the repository the ref belongs
\* to; and a call that failed before its ref write has changed no ref.
C23_ObjectsBeforeRefs ==
    [][(\A b \in Branches :
           /\ (refs'[b] # refs[b] /\ refs'[b] # NoRef) =>
                  (CommitClosure(refs'[b]) \subseteq objects)
           /\ (rrefs'[b] # rrefs[b] /\ rrefs'[b] # NoRef) =>
                  (CommitClosure(rrefs'[b]) \subseteq robjects))
       /\ ((last'.pc = "failed" /\ ~last'.wrote) =>
              (refs' = last'.refs0 /\ rrefs' = last'.rrefs0))]_vars

\* The name Git sorts a tree entry by: the name's bytes, followed by '/'
\* for a directory.
GitSortKey(entry) ==
    StrEncode(IF entry[1] = <<"4", "0", "0", "0", "0">>
              THEN entry[2] \o <<"/">> ELSE entry[2])

\* C24: the entries of a tree written by commit are in Git order: each
\* entry's name, taken with a trailing '/' when it is a directory, is
\* byte-wise below that of the entry after it.
C24_TreeEntriesInGitOrder ==
    call.op = "tree" =>
        \A i \in 1..(Len(call.entries) - 1) :
            BytesLess(GitSortKey(call.entries[i]), GitSortKey(call.entries[i + 1]))

\* C26: parsing the bytes of a tree gives back the entries it was written
\* from, serialising the parsed entries gives back the same bytes (and so
\* the same oid), and the empty tree parses to no entries.
C26_TreeRoundTrip ==
    call.op = "tree" =>
        /\ call.parsed.ok
        /\ call.parsed.entries = call.entries
        /\ SerialiseTree(call.parsed.entries) = call.bytes
        /\ (call.bytes = <<>> => call.parsed.entries = <<>>)

\* A tree of two entries whose names hold spaces and whose oids hold NUL
\* bytes and spaces has been written and parsed.
C26_Witness ==
    /\ call.op = "tree"
    /\ Len(call.entries) = 2
    /\ \E i \in 1..2 : SP \in Range(call.entries[i][2])
    /\ \E i \in 1..2 : 0 \in Range(BytesFromHex(call.entries[i][3]))
    /\ \E i \in 1..2 : 32 \in Range(BytesFromHex(call.entries[i][3]))
    /\ call.parsed.entries = call.entries

\* C25: for every commit the engine writes, laying out the fields that
\* _parse_commit returns gives the text that was written, so the same
\* bytes and the same oid.
C25_CommitRoundTrip ==
    call.op = "commit" => call.again = call.content

\* C27: the index entry written for a path of n >= 1 bytes is 62 bytes
\* (ten packed fields, the 20 oid bytes, the flags), the n path bytes and
\* p NUL bytes with 1 <= p <= 8 and 62 + n + p a multiple of 8; its flags
\* are min(n, 0xFFF).
C27_IndexEntryLayout ==
    (call.op = "index" /\ call.entry.ok) =>
        LET e == call.entry.bytes
            n == call.n
            p == Len(e) - 62 - n
        IN /\ n >= 1
           /\ p >= 1
           /\ p <= 8
           /\ (62 + n + p) % 8 = 0
           /\ SubSeq(e, 41, 60) = BytesFromHex(call.sha)
           /\ e[61] * 256 + e[62] = (IF n < 4095 THEN n ELSE 4095)
           /\ \A i \in 63..(62 + n) : e[i] = 97
           /\ \A i \in (63 + n)..Len(e) : e[i] = 0

\* An entry has been written for a path longer than 0xFFF bytes whose
\* prefix and path end on a multiple of 8.
C27_Witness ==
    /\ call.op = "index"
    /\ call.entry.ok
    /\ call.n > 4095
    /\ (62 + call.n) % 8 = 0
    /\ Len(call.entry.bytes) = 62 + call.n + 8

\* C28: writing the index succeeds for every stat value, and the dev, ino
\* and size fields of the entry hold the values modulo 2^32.
C28_StatValuesReducedModulo ==
    call.op = "index" =>
        /\ call.entry.ok
        /\ SubSeq(call.entry.bytes, 17, 20) = Pack32(Mask32(call.st.dev))
        /\ SubSeq(call.entry.bytes, 21, 24) = Pack32(Mask32(call.st.ino))
        /\ SubSeq(call.entry.bytes, 37, 40) = Pack32(Mask32(call.st.size))

\* C29: list_branches returns each branch that has a ref under refs/heads
\* exactly once, and the branch names are in name order in the list,
\* whichever branch is the current one.
C29_BranchesListedInNameOrder ==
    LET out == ListBranches
        name(i) == SubSeq(out[i], 3, Len(out[i]))
        existing == {b \in Branches : refs[b] # NoRef}
    IN /\ Len(out) = Cardinality(existing)
       /\ {name(i) : i \in 1..Len(out)} = {BranchChars(b) : b \in existing}
       /\ \A i \in 1..(Len(out) - 1) :
              BytesLess(StrEncode(name(i)), StrEncode(name(i + 1)))

\* The first-parent history of sha is in the object store: sha and each
\* first parent after it are stored commits.  A branch without a ref has
\* the empty history.
RECURSIVE HistoryStored(_)
HistoryStored(sha) ==
    \/ sha = NoRef
    \/ /\ IsCommit(sha)
       /\ sha.parents = <<>> \/ HistoryStored(sha.parents[1])

\* walk lists the history of tip up to max entries: the tip first, then
\* each entry's first parent, ending at the root commit unless max
\* entries were reached first.
WalkOf(walk, tip, max) ==
    /\ Len(walk) <= max
    /\ tip = NoRef => walk = <<>>
    /\ (tip # NoRef /\ max > 0) => (walk # <<>> /\ walk[1] = tip)
    /\ \A i \in 1..(Len(walk) - 1) :
          walk[i].parents # <<>> /\ walk[i + 1] = walk[i].parents[1]
    /\ (walk # <<>> /\ Len(walk) < max) => walk[Len(walk)].parents = <<>>

C31_RenameMovesTrackedFile ==
    [][(/\ last'.op = "rename"
        /\ refs[last'.branch] # NoRef
        /\ SgGetBlobContentFromCommit(refs[last'.branch], last'.file) # {}) =>
          (/\ last'.success
           /\ \A new \in last'.input :
                /\ SgGetBlobContentFromCommit(refs'[last'.branch], new) =
                      SgGetBlobContentFromCommit(refs[last'.branch], last'.file)
                /\ SgGetBlobContentFromCommit(refs'[last'.branch], last'.file) = {}
                /\ \A p \in FilePaths \ {new, last'.file} :
                      SgGetBlobContentFromCommit(refs'[last'.branch], p) =
                          SgGetBlobContentFromCommit(refs[last'.branch], p))]_vars

\* C32: delete(p, b) of a path p that is not in b's tip tree fails and
\* changes nothing: no ref changes (so no commit is created) and no file
\* of the working tree is removed.
C32_DeleteUntrackedChangesNothing ==
    [][(/\ last'.op = "delete"
        /\ refs[last'.branch] # NoRef
        /\ SgGetBlobContentFromCommit(refs[last'.branch], last'.file) = {}) =>
          (/\ ~last'.success
           /\ refs' = refs
           /\ \A p \in DOMAIN wt : wt[p].kind = "file" => wt'[p].kind = "file")]_vars

\* The commits reachable from c through parent links, c included.
RECURSIVE AncestorsOf(_)
AncestorsOf(c) ==
    IF IsCommit(c)
    THEN {c} \cup UNION {AncestorsOf(c.parents[i]) : i \in DOMAIN c.parents}
    ELSE {}

\* C33: pull is a fast-forward: whenever it moves a branch ref that had a
\* tip, every commit reachable from the old tip is reachable from the new
\* one.
C33_PullIsFastForward ==
    [][last'.op = "pull" =>
          \A b \in Branches :
              (refs[b] # NoRef /\ refs'[b] # refs[b]) =>
                  AncestorsOf(refs[b]) \subseteq AncestorsOf(refs'[b])]_vars

C35_AddKeepsSavedIndex ==
    [][(last.op = "open" /\ call = NoCall /\ last'.op = "add" /\ last'.ok) =>
          \A e \in indexFile.entries :
              \E f \in indexFile'.entries : f.path = e.path]_vars

C37_CommitAdvancesHeadBranch ==
    [][(call' # NoCall /\ last'.op = "commit") =>
          /\ refs'[HEAD].type = "commit"
          /\ refs'[HEAD].parents = CommitParents(refs[HEAD])
          /\ \A b \in Branches \ {HEAD} : refs'[b] = refs[b]]_vars

====
